---- MODULE Spec2Model ----
(***************************************************************************)
(* Model of the crawl controller of the scraper: WebScraper (scraper.py),  *)
(* the parts of HTMLParser (parser.py) and Config (config.py) it calls,    *)
(* and the handlers of main (main.py) that wrap a crawl.                   *)
(*                                                                         *)
(* URLs are the strings the code handles; urlparse(url).netloc is computed *)
(* character by character as urllib does.  A PageRecord is identified by   *)
(* the URL it was parsed from.                                             *)
(***************************************************************************)
EXTENDS Integers, Sequences, FiniteSets, TLC

\* ------------------------------------------------------------------ bounds
MaxBudget == 3       \* largest max_pages argument passed to crawl
MaxLinks == 2        \* most links extract_links returns for one page
MaxRuns == 2         \* most crawl invocations on one WebScraper

\* Python's None, for an absent max_pages argument or an absent config key.
None == -1

\* --------------------------------------------------------------- the URLs
UrlSeed == "https://example.com/"
UrlNotExample == "https://notexample.com/x"
UrlOther == "https://other.test/z"
UrlUserinfo == "https://example.com@evil.test/"

\* The URLs pages link to, and the URLs a crawl is started from.
LinkUrls == {UrlSeed, UrlNotExample, UrlOther, UrlUserinfo}

StartUrls == {UrlSeed, UrlOther}

\* The url argument of scrape_single_page.
SingleUrls == {UrlSeed}

\* A four-page site: the seed page links to /a and /b, page /a links to /c.
SiteSeed == "https://site.test/"
SiteA == "https://site.test/a"
SiteB == "https://site.test/b"
SiteC == "https://site.test/c"

SiteUrls == {SiteSeed, SiteA, SiteB, SiteC}

\* The href attributes of the anchors of each page of the site, as written.
PageHrefs(url) ==
    CASE url = SiteSeed -> {"/a", "/b"}
      [] url = SiteA -> {"/c"}
      [] OTHER -> {}

URLS == LinkUrls \cup StartUrls \cup SiteUrls

AllowedDomainsChoices == {<<>>, <<"example.com">>, <<"evil.test", "other.test">>}

DelayChoices == {0, 1}

ConfigMaxPagesChoices == {None, 2}

MaxPagesArgs == {None} \cup (0..MaxBudget)

\* The outcomes of one HTTP GET as fetch_page classifies them.
FetchOutcomes ==
    {"Success", "SuccessEmptyBody", "NotFound", "Forbidden", "OtherStatus",
     "Timeout", "ConnectionError", "RequestException", "UnexpectedError"}

\* ------------------------------------------------------- string helpers
Range(s) == {s[i] : i \in 1..Len(s)}

Min(S) == CHOOSE m \in S : \A n \in S : m <= n

\* s[i] of Python, 1-based.
CharAt(s, i) == SubSeq(s, i, i)

\* str.find(c, start) for a one-character c, 1-based; 0 when absent.
Find(s, c, start) ==
    LET hits == {i \in start..Len(s) : CharAt(s, i) = c}
    IN  IF hits = {} THEN 0 ELSE Min(hits)

\* Python's `needle in hay` on strings.
Contains(hay, needle) ==
    \E i \in 0..(Len(hay) - Len(needle)) :
        SubSeq(hay, i + 1, i + Len(needle)) = needle

Letters ==
    {"a","b","c","d","e","f","g","h","i","j","k","l","m",
     "n","o","p","q","r","s","t","u","v","w","x","y","z"}

SchemeChars == Letters \cup {"0","1","2","3","4","5","6","7","8","9","+","-","."}

\* urlsplit: what is left of the URL after a leading "<scheme>:".
AfterScheme(url) ==
    LET i == Find(url, ":", 1)
    IN  IF /\ i > 1
           /\ CharAt(url, 1) \in Letters
           /\ \A k \in 1..(i - 1) : CharAt(url, k) \in SchemeChars
        THEN SubSeq(url, i + 1, Len(url))
        ELSE url

\* urlparse(url).netloc: the text between "//" and the first of "/?#".
Netloc(url) ==
    LET rest == AfterScheme(url)
        ends == {Find(rest, c, 3) : c \in {"/", "?", "#"}} \ {0}
        delim == IF ends = {} THEN Len(rest) + 1 ELSE Min(ends)
    IN  IF Len(rest) >= 2 /\ SubSeq(rest, 1, 2) = "//"
        THEN SubSeq(rest, 3, delim - 1)
        ELSE ""

\* urlparse(url).scheme
Scheme(url) ==
    LET rest == AfterScheme(url)
    IN  IF rest = url THEN "" ELSE SubSeq(url, 1, Len(url) - Len(rest) - 1)

\* str.startswith
StartsWith(s, prefix) ==
    Len(s) >= Len(prefix) /\ SubSeq(s, 1, Len(prefix)) = prefix

\* urljoin(base_url, href) for an href that is an absolute URL, an absolute
\* path or a plain relative path (no "//host", no dot segments).
UrlJoin(base, href) ==
    IF Scheme(href) # ""
    THEN href
    ELSE IF StartsWith(href, "/")
         THEN Scheme(base) \o "://" \o Netloc(base) \o href
         ELSE LET slashes == {i \in 1..Len(base) : CharAt(base, i) = "/"}
                  last == CHOOSE m \in slashes : \A n \in slashes : n <= m
              IN  SubSeq(base, 1, last) \o href

\* HTMLParser._is_valid_url
IsValidUrl(url) == Scheme(url) \in {"http", "https"} /\ Netloc(url) # ""

\* The orders list(set(...)) can give the elements of S.
Orderings(S) ==
    {l \in [1..Cardinality(S) -> S] : \A i, j \in 1..Len(l) : l[i] = l[j] => i = j}

\* HTMLParser.extract_links on a page with the given href attributes.
ExtractLinks(base_url, hrefs) ==
    LET kept == {h \in hrefs : ~StartsWith(h, "#") /\ ~StartsWith(h, "javascript:")}
        absolute == {UrlJoin(base_url, h) : h \in kept}
    IN  Orderings({u \in absolute : IsValidUrl(u)})

\* extract_links on every page of the site, tabulated.
SiteLinks == [url \in SiteUrls |-> ExtractLinks(url, PageHrefs(url))]

\* Mutant of IsAllowedDomain: the allow-list is not consulted.
IsAllowedDomainAlways(url, allowed_domains) == TRUE

\* WebScraper._is_allowed_domain
IsAllowedDomain(url, allowed_domains) ==
    IF allowed_domains = <<>>
    THEN TRUE
    ELSE \E k \in 1..Len(allowed_domains) :
            Contains(Netloc(url), allowed_domains[k])


\* _is_allowed_domain on every URL and allow-list of the model, tabulated.
DomainVerdicts ==
    [allowed_domains \in AllowedDomainsChoices |->
        [url \in URLS |-> IsAllowedDomain(url, allowed_domains)]]

\* crawl, line 101: self._is_allowed_domain(current_url)
Allowed(url, cfg) == DomainVerdicts[cfg.allowed_domains][url]

\* Config.get(key, default): the default when the key is absent.
ConfigGet(value, default) == IF value = None THEN default ELSE value

\* Mutant of EffectiveMaxPages: only None, not 0, falls back to the configuration.
EffectiveMaxPagesNoneOnly(arg, cfg) ==
    IF arg # None THEN arg ELSE ConfigGet(cfg.max_pages, 10)

\* crawl, line 90: max_pages or self.config.get('max_pages', 10)
EffectiveMaxPages(arg, cfg) ==
    IF arg # None /\ arg # 0 THEN arg ELSE ConfigGet(cfg.max_pages, 10)

\* Mutant of LoopCond: the budget test is off by one.
LoopCondOffByOne(queue, visited, budget) ==
    queue # <<>> /\ Cardinality(visited) <= budget

\* crawl, line 95: the while condition.
LoopCond(queue, visited, budget) ==
    queue # <<>> /\ Cardinality(visited) < budget

\* Mutant of Dequeue: pop() takes the tail, a stack instead of a queue.
DequeueLast(queue) ==
    [url |-> queue[Len(queue)], rest |-> SubSeq(queue, 1, Len(queue) - 1)]

\* Mutant of Dequeue: the head is read and left in the queue.
DequeueKeepsHead(queue) == [url |-> Head(queue), rest |-> queue]

\* crawl, line 96: urls_to_visit.pop(0)
Dequeue(queue) == [url |-> Head(queue), rest |-> Tail(queue)]

\* Mutant of MarkVisited: the URL is not recorded.
MarkVisitedNot(visited, url) == visited

\* crawl, line 106: visited_urls.add(current_url)
MarkVisited(visited, url) == visited \cup {url}

\* fetch_page: the body handed back (truthy) or None/"" (falsy), lines 48-72.
HtmlTruthy(outcome) == outcome = "Success"

\* Mutant of AddLinksToQueue: a link already in the queue is appended again.
AddLinksToQueueNoQueueTest(links, visited, queue) ==
    queue \o SelectSeq(links, LAMBDA l : l \notin visited)

\* Mutant of AddLinksToQueue: new links go to the head of the queue.
AddLinksToQueueFront(links, visited, queue) ==
    SelectSeq(links, LAMBDA l : l \notin visited /\ l \notin Range(queue)) \o queue

\* WebScraper._add_links_to_queue
RECURSIVE AddLinksToQueue(_, _, _)
AddLinksToQueue(links, visited, queue) ==
    IF links = <<>>
    THEN queue
    ELSE LET link == Head(links)
         IN  AddLinksToQueue(
                 Tail(links), visited,
                 IF link \notin visited /\ link \notin Range(queue)
                 THEN Append(queue, link)
                 ELSE queue)

\* extract_links returns list(set(links)): no duplicate, in any order.
LinkLists ==
    {l \in UNION {[1..n -> LinkUrls] : n \in 0..MaxLinks} :
        \A i, j \in 1..Len(l) : l[i] = l[j] => i = j}

\* History: `items` appended to `log`, each only the first time it is seen.
RECURSIVE LogFirst(_, _)
LogFirst(log, items) ==
    IF items = <<>>
    THEN log
    ELSE LogFirst(IF Head(items) \in Range(log) THEN log ELSE Append(log, Head(items)),
                  Tail(items))

\* ------------------------------------------------------------------ state
VARIABLES
    config,          \* the Config snapshot the scraper was built with
    visited_urls,    \* WebScraper.visited_urls
    urls_to_visit,   \* WebScraper.urls_to_visit
    results,         \* crawl's local list of page records (by URL)
    max_pages,       \* crawl's local page budget
    current_url,     \* crawl's local current_url
    new_links,       \* crawl's local new_links of the last fetch
    pc,              \* where the caller is: idle, loop, fetch, sleep, returned,
                     \* single_fetch, single_returned, exited
    exit_code,       \* the process exit code once main has ended, else None
    saved,           \* the records handed to storage.save
    ended,           \* why the last crawl ended: none, exhausted, interrupt, error
    runs,            \* history: number of crawl invocations so far
    start_visited,   \* history: visited_urls when the current run started
    fetch_log,       \* history: URLs fetch_page was called with in this run
    enq_log,         \* history: URLs of this run in order of first enqueue
    skip_log,        \* history: URLs the domain filter rejected in this run, in order
    seed_outcome,    \* history: outcome of the first fetch_page call of the run
    waits,           \* history: time.sleep calls that returned since the last fetch did
    page_links,      \* history: links of the page the last fetch returned, if any
    single_log,      \* history: URLs the scrape_single_page call has fetched
    single_outcome,  \* history: outcome of the fetch of the scrape_single_page call
    single_result,   \* main's results list on the single-page path
    exit_cause,      \* why main ended: none, usage, error, interrupt, saved, nodata
    argv,            \* history: the command-line flags main was started with
    args,            \* main's args, the Namespace parse_arguments returned
    file_config      \* the JSON object in the file --config names

vars == <<config, visited_urls, urls_to_visit, results, max_pages, current_url,
          new_links, pc, exit_code, saved, ended, runs, start_visited,
          fetch_log, enq_log, skip_log, seed_outcome, waits, page_links,
          single_log, single_outcome, single_result, exit_cause,
          argv, args, file_config>>

\* A dict without keys: main's variables before main has assigned them.
EmptyDict == [k \in {} |-> None]

Configs ==
    [allowed_domains : AllowedDomainsChoices,
     follow_links : BOOLEAN,
     delay_between_requests : DelayChoices,
     max_pages : ConfigMaxPagesChoices]

\* WebScraper.__init__
Init ==
    /\ config \in Configs
    /\ visited_urls = {}
    /\ urls_to_visit = <<>>
    /\ results = <<>>
    /\ max_pages = 0
    /\ current_url = ""
    /\ new_links = <<>>
    /\ pc = "idle"
    /\ exit_code = None
    /\ saved = <<>>
    /\ ended = "none"
    /\ runs = 0
    /\ start_visited = {}
    /\ fetch_log = <<>>
    /\ enq_log = <<>>
    /\ skip_log = <<>>
    /\ seed_outcome = "none"
    /\ waits = 0
    /\ page_links = <<>>
    /\ single_log = <<>>
    /\ single_outcome = "none"
    /\ single_result = <<>>
    /\ exit_cause = "none"
    /\ argv = EmptyDict
    /\ args = EmptyDict
    /\ file_config = EmptyDict

\* crawl, lines 84-93: a call of crawl(start_url, arg) on the scraper.
CrawlStart(start_url, arg) ==
    /\ pc \in {"idle", "returned"}
    /\ runs < MaxRuns
    /\ results' = <<>>
    /\ urls_to_visit' = <<start_url>>
    /\ max_pages' = EffectiveMaxPages(arg, config)
    /\ current_url' = ""
    /\ new_links' = <<>>
    /\ pc' = "loop"
    /\ ended' = "none"
    /\ runs' = runs + 1
    /\ start_visited' = visited_urls
    /\ fetch_log' = <<>>
    /\ enq_log' = <<start_url>>
    /\ UNCHANGED <<config, argv, args, file_config, visited_urls, exit_code, saved>>
    /\ skip_log' = <<>>
    /\ seed_outcome' = "none"
    /\ waits' = 0
    /\ page_links' = <<>>
    /\ UNCHANGED <<single_log, single_outcome, single_result, exit_cause>>

\* crawl, lines 95 and 123-127: the while condition is false, crawl returns.
CrawlReturn ==
    /\ pc = "loop"
    /\ ~LoopCond(urls_to_visit, visited_urls, max_pages)
    /\ pc' = "returned"
    /\ ended' = "exhausted"
    /\ UNCHANGED <<config, argv, args, file_config, visited_urls, urls_to_visit, results, max_pages,
                   current_url, new_links, exit_code, saved, runs,
                   start_visited, fetch_log, enq_log>>
    /\ UNCHANGED <<skip_log, seed_outcome, waits>>
    /\ UNCHANGED <<page_links, single_log, single_outcome, single_result, exit_cause>>

\* crawl, lines 96-99: the popped URL is already visited.
PopSkipVisited ==
    /\ pc = "loop"
    /\ LoopCond(urls_to_visit, visited_urls, max_pages)
    /\ Dequeue(urls_to_visit).url \in visited_urls
    /\ current_url' = Dequeue(urls_to_visit).url
    /\ urls_to_visit' = Dequeue(urls_to_visit).rest
    /\ UNCHANGED <<config, argv, args, file_config, visited_urls, results, max_pages, new_links, pc,
                   exit_code, saved, ended, runs, start_visited, fetch_log,
                   enq_log>>
    /\ UNCHANGED <<skip_log, seed_outcome, waits>>
    /\ UNCHANGED <<page_links, single_log, single_outcome, single_result, exit_cause>>

\* Mutant of PopSkipDomain: the rejected URL is fetched all the same.
PopSkipDomainFetches ==
    /\ pc = "loop"
    /\ LoopCond(urls_to_visit, visited_urls, max_pages)
    /\ Dequeue(urls_to_visit).url \notin visited_urls
    /\ ~Allowed(Dequeue(urls_to_visit).url, config)
    /\ current_url' = Dequeue(urls_to_visit).url
    /\ urls_to_visit' = Dequeue(urls_to_visit).rest
    /\ pc' = "fetch"
    /\ fetch_log' = Append(fetch_log, Dequeue(urls_to_visit).url)
    /\ UNCHANGED <<config, argv, args, file_config, visited_urls, results, max_pages, new_links,
                   exit_code, saved, ended, runs, start_visited, enq_log>>
    /\ skip_log' = Append(skip_log, Dequeue(urls_to_visit).url)
    /\ UNCHANGED <<seed_outcome, waits>>
    /\ UNCHANGED <<page_links, single_log, single_outcome, single_result, exit_cause>>

\* Mutant of PopSkipDomain: the rejected URL is marked visited.
PopSkipDomainMarks ==
    /\ pc = "loop"
    /\ LoopCond(urls_to_visit, visited_urls, max_pages)
    /\ Dequeue(urls_to_visit).url \notin visited_urls
    /\ ~Allowed(Dequeue(urls_to_visit).url, config)
    /\ current_url' = Dequeue(urls_to_visit).url
    /\ urls_to_visit' = Dequeue(urls_to_visit).rest
    /\ visited_urls' = MarkVisited(visited_urls, Dequeue(urls_to_visit).url)
    /\ UNCHANGED <<config, argv, args, file_config, results, max_pages, new_links, pc,
                   exit_code, saved, ended, runs, start_visited, fetch_log,
                   enq_log>>
    /\ skip_log' = Append(skip_log, Dequeue(urls_to_visit).url)
    /\ UNCHANGED <<seed_outcome, waits>>
    /\ UNCHANGED <<page_links, single_log, single_outcome, single_result, exit_cause>>

\* crawl, lines 96-103: the popped URL is rejected by the domain filter.
PopSkipDomain ==
    /\ pc = "loop"
    /\ LoopCond(urls_to_visit, visited_urls, max_pages)
    /\ Dequeue(urls_to_visit).url \notin visited_urls
    /\ ~Allowed(Dequeue(urls_to_visit).url, config)
    /\ current_url' = Dequeue(urls_to_visit).url
    /\ urls_to_visit' = Dequeue(urls_to_visit).rest
    /\ UNCHANGED <<config, argv, args, file_config, visited_urls, results, max_pages, new_links, pc,
                   exit_code, saved, ended, runs, start_visited, fetch_log,
                   enq_log>>
    /\ skip_log' = Append(skip_log, Dequeue(urls_to_visit).url)
    /\ UNCHANGED <<seed_outcome, waits>>
    /\ UNCHANGED <<page_links, single_log, single_outcome, single_result, exit_cause>>

\* crawl, lines 96-105: the popped URL passes both tests, fetch_page is called.
PopFetch ==
    /\ pc = "loop"
    /\ LoopCond(urls_to_visit, visited_urls, max_pages)
    /\ Dequeue(urls_to_visit).url \notin visited_urls
    /\ Allowed(Dequeue(urls_to_visit).url, config)
    /\ current_url' = Dequeue(urls_to_visit).url
    /\ urls_to_visit' = Dequeue(urls_to_visit).rest
    /\ fetch_log' = Append(fetch_log, Dequeue(urls_to_visit).url)
    /\ pc' = "fetch"
    /\ UNCHANGED <<config, argv, args, file_config, visited_urls, results, max_pages, new_links,
                   exit_code, saved, ended, runs, start_visited, enq_log>>
    /\ seed_outcome' = IF fetch_log = <<>> THEN "pending" ELSE seed_outcome
    /\ UNCHANGED <<skip_log, waits>>
    /\ UNCHANGED <<page_links, single_log, single_outcome, single_result, exit_cause>>

\* Mutant of AfterIteration: every delay but 0 sleeps.
AfterIterationNonZero(queue) ==
    IF ConfigGet(config.delay_between_requests, 1) # 0 /\ queue # <<>>
    THEN "sleep"
    ELSE "loop"

\* Mutant of AfterIteration: the loop never sleeps.
AfterIterationNoSleep(queue) == "loop"

\* crawl, lines 119-121: where the iteration goes after the fetch.
AfterIteration(queue) ==
    IF ConfigGet(config.delay_between_requests, 1) > 0 /\ queue # <<>>
    THEN "sleep"
    ELSE "loop"

\* Mutant of FetchSuccess: the record is put in front of the results.
FetchSuccessPrepends(links) ==
    /\ pc = "fetch"
    /\ page_links' = links
    /\ HtmlTruthy("Success")
    /\ visited_urls' = MarkVisited(visited_urls, current_url)
    /\ results' = <<current_url>> \o results
    /\ new_links' = IF config.follow_links THEN links ELSE <<>>
    /\ urls_to_visit' =
           IF config.follow_links
           THEN AddLinksToQueue(links, visited_urls', urls_to_visit)
           ELSE urls_to_visit
    /\ enq_log' =
           LogFirst(enq_log,
                    SubSeq(urls_to_visit', Len(urls_to_visit) + 1, Len(urls_to_visit')))
    /\ pc' = AfterIteration(urls_to_visit')
    /\ UNCHANGED <<config, argv, args, file_config, max_pages, current_url, exit_code, saved, ended,
                   runs, start_visited, fetch_log>>
    /\ seed_outcome' = IF Len(fetch_log) = 1 THEN "Success" ELSE seed_outcome
    /\ waits' = 0
    /\ UNCHANGED skip_log
    /\ UNCHANGED <<single_log, single_outcome, single_result, exit_cause>>

\* Mutant of FetchSuccess: links are followed whatever follow_links says.
FetchSuccessFollowsAlways(links) ==
    /\ pc = "fetch"
    /\ page_links' = links
    /\ HtmlTruthy("Success")
    /\ visited_urls' = MarkVisited(visited_urls, current_url)
    /\ results' = Append(results, current_url)
    /\ new_links' = links
    /\ urls_to_visit' = AddLinksToQueue(links, visited_urls', urls_to_visit)
    /\ enq_log' =
           LogFirst(enq_log,
                    SubSeq(urls_to_visit', Len(urls_to_visit) + 1, Len(urls_to_visit')))
    /\ pc' = AfterIteration(urls_to_visit')
    /\ UNCHANGED <<config, argv, args, file_config, max_pages, current_url, exit_code, saved, ended,
                   runs, start_visited, fetch_log>>
    /\ seed_outcome' = IF Len(fetch_log) = 1 THEN "Success" ELSE seed_outcome
    /\ waits' = 0
    /\ UNCHANGED skip_log
    /\ UNCHANGED <<single_log, single_outcome, single_result, exit_cause>>

\* crawl, lines 105-121, fetch_page returned a page that parses.
FetchSuccess(links) ==
    /\ pc = "fetch"
    /\ page_links' = links
    /\ HtmlTruthy("Success")
    /\ visited_urls' = MarkVisited(visited_urls, current_url)
    /\ results' = Append(results, current_url)
    /\ new_links' = IF config.follow_links THEN links ELSE <<>>
    /\ urls_to_visit' =
           IF config.follow_links
           THEN AddLinksToQueue(links, visited_urls', urls_to_visit)
           ELSE urls_to_visit
    /\ enq_log' =
           LogFirst(enq_log,
                    SubSeq(urls_to_visit', Len(urls_to_visit) + 1, Len(urls_to_visit')))
    /\ pc' = AfterIteration(urls_to_visit')
    /\ UNCHANGED <<config, argv, args, file_config, max_pages, current_url, exit_code, saved, ended,
                   runs, start_visited, fetch_log>>
    /\ seed_outcome' = IF Len(fetch_log) = 1 THEN "Success" ELSE seed_outcome
    /\ waits' = 0
    /\ UNCHANGED skip_log
    /\ UNCHANGED <<single_log, single_outcome, single_result, exit_cause>>

\* Mutant of FetchFailure: a failed fetch does not mark the URL visited.
FetchFailureNoMark(outcome) ==
    /\ pc = "fetch"
    /\ ~HtmlTruthy(outcome)
    /\ new_links' = <<>>
    /\ pc' = AfterIteration(urls_to_visit)
    /\ UNCHANGED <<config, argv, args, file_config, visited_urls, urls_to_visit, results, max_pages,
                   current_url, exit_code, saved, ended, runs, start_visited,
                   fetch_log, enq_log>>
    /\ seed_outcome' = IF Len(fetch_log) = 1 THEN outcome ELSE seed_outcome
    /\ waits' = 0
    /\ UNCHANGED skip_log
    /\ page_links' = <<>>
    /\ UNCHANGED <<single_log, single_outcome, single_result, exit_cause>>

\* Mutant of FetchFailure: the URL of a failed fetch is queued again.
FetchFailureRequeues(outcome) ==
    /\ pc = "fetch"
    /\ ~HtmlTruthy(outcome)
    /\ visited_urls' = MarkVisited(visited_urls, current_url)
    /\ urls_to_visit' = Append(urls_to_visit, current_url)
    /\ new_links' = <<>>
    /\ pc' = AfterIteration(urls_to_visit')
    /\ UNCHANGED <<config, argv, args, file_config, results, max_pages, current_url,
                   exit_code, saved, ended, runs, start_visited, fetch_log,
                   enq_log>>
    /\ seed_outcome' = IF Len(fetch_log) = 1 THEN outcome ELSE seed_outcome
    /\ waits' = 0
    /\ UNCHANGED skip_log
    /\ page_links' = <<>>
    /\ UNCHANGED <<single_log, single_outcome, single_result, exit_cause>>

\* Mutant of FetchFailure: a failed fetch still yields a record.
FetchFailureRecords(outcome) ==
    /\ pc = "fetch"
    /\ ~HtmlTruthy(outcome)
    /\ visited_urls' = MarkVisited(visited_urls, current_url)
    /\ results' = Append(results, current_url)
    /\ new_links' = <<>>
    /\ pc' = AfterIteration(urls_to_visit)
    /\ UNCHANGED <<config, argv, args, file_config, urls_to_visit, max_pages, current_url,
                   exit_code, saved, ended, runs, start_visited, fetch_log,
                   enq_log>>
    /\ seed_outcome' = IF Len(fetch_log) = 1 THEN outcome ELSE seed_outcome
    /\ waits' = 0
    /\ UNCHANGED skip_log
    /\ page_links' = <<>>
    /\ UNCHANGED <<single_log, single_outcome, single_result, exit_cause>>

\* crawl, lines 105-108 and 119-121, fetch_page returned None or an empty body.
FetchFailure(outcome) ==
    /\ pc = "fetch"
    /\ ~HtmlTruthy(outcome)
    /\ visited_urls' = MarkVisited(visited_urls, current_url)
    /\ new_links' = <<>>
    /\ pc' = AfterIteration(urls_to_visit)
    /\ UNCHANGED <<config, argv, args, file_config, urls_to_visit, results, max_pages, current_url,
                   exit_code, saved, ended, runs, start_visited, fetch_log,
                   enq_log>>
    /\ seed_outcome' = IF Len(fetch_log) = 1 THEN outcome ELSE seed_outcome
    /\ waits' = 0
    /\ UNCHANGED skip_log
    /\ page_links' = <<>>
    /\ UNCHANGED <<single_log, single_outcome, single_result, exit_cause>>

\* crawl, lines 105-110: parser.parse raises (an href urljoin rejects, a bad
\* selector); nothing in crawl catches it, main's handler exits with 1.
ParseRaises ==
    /\ pc = "fetch"
    /\ HtmlTruthy("Success")
    /\ visited_urls' = MarkVisited(visited_urls, current_url)
    /\ new_links' = <<>>
    /\ pc' = "exited"
    /\ ended' = "error"
    /\ exit_code' = 1
    /\ UNCHANGED <<config, argv, args, file_config, urls_to_visit, results, max_pages, current_url,
                   saved, runs, start_visited, fetch_log, enq_log>>
    /\ seed_outcome' = IF Len(fetch_log) = 1 THEN "Success" ELSE seed_outcome
    /\ waits' = 0
    /\ UNCHANGED skip_log
    /\ exit_cause' = "error"
    /\ page_links' = <<>>
    /\ UNCHANGED <<single_log, single_outcome, single_result>>

\* crawl, line 121: time.sleep returns.
SleepDone ==
    /\ pc = "sleep"
    /\ pc' = "loop"
    /\ UNCHANGED <<config, argv, args, file_config, visited_urls, urls_to_visit, results, max_pages,
                   current_url, new_links, exit_code, saved, ended, runs,
                   start_visited, fetch_log, enq_log>>
    /\ waits' = waits + 1
    /\ UNCHANGED <<skip_log, seed_outcome>>
    /\ UNCHANGED <<page_links, single_log, single_outcome, single_result, exit_cause>>

\* KeyboardInterrupt during fetch_page or time.sleep: it passes through
\* crawl to main's handler, which exits with 0.
Interrupt ==
    /\ pc \in {"fetch", "sleep"}
    /\ pc' = "exited"
    /\ ended' = "interrupt"
    /\ exit_code' = 0
    /\ UNCHANGED <<config, argv, args, file_config, visited_urls, urls_to_visit, results, max_pages,
                   current_url, new_links, saved, runs, start_visited,
                   fetch_log, enq_log>>
    /\ UNCHANGED <<skip_log, seed_outcome, waits>>
    /\ exit_cause' = "interrupt"
    /\ UNCHANGED <<page_links, single_log, single_outcome, single_result>>

\* main, lines 209-230: the returned records go to storage when there are any.
MainFinish ==
    /\ pc = "returned"
    /\ saved' = results
    /\ pc' = "exited"
    /\ exit_code' = 0
    /\ UNCHANGED <<config, argv, args, file_config, visited_urls, urls_to_visit, results, max_pages,
                   current_url, new_links, ended, runs, start_visited,
                   fetch_log, enq_log>>
    /\ UNCHANGED <<skip_log, seed_outcome, waits>>
    /\ exit_cause' = IF results # <<>> THEN "saved" ELSE "nodata"
    /\ UNCHANGED <<page_links, single_log, single_outcome, single_result>>

\* The variables of the crawl: the scraper's two collections, crawl's locals and
\* the history of the crawl run.  scrape_single_page touches none of them.
crawl_vars == <<visited_urls, urls_to_visit, results, max_pages, current_url,
                new_links, ended, start_visited, fetch_log, enq_log, skip_log,
                seed_outcome, waits>>

\* scrape_single_page, lines 158-171: a call of scrape_single_page(url) on a
\* scraper that does not crawl (main takes one of the two paths, lines 201-207);
\* it calls fetch_page(url) without consulting visited_urls or the domain filter.
SingleStart(url) ==
    /\ pc \in {"idle", "single_returned"}
    /\ runs < MaxRuns
    /\ pc' = "single_fetch"
    /\ runs' = runs + 1
    /\ single_log' = <<url>>
    /\ single_outcome' = "pending"
    /\ single_result' = <<>>
    /\ page_links' = <<>>
    /\ UNCHANGED <<config, argv, args, file_config, exit_code, saved, exit_cause>>
    /\ UNCHANGED crawl_vars

\* scrape_single_page, lines 171-173, and main, lines 206-207: the body is
\* truthy and parses; the record becomes main's one-element results list.
\* The page's links stay inside the record, nothing reads them.
SingleSuccess ==
    /\ pc = "single_fetch"
    /\ HtmlTruthy("Success")
    /\ single_outcome' = "Success"
    /\ single_result' = <<single_log[1]>>
    /\ pc' = "single_returned"
    /\ UNCHANGED <<config, argv, args, file_config, exit_code, saved, runs, single_log, page_links,
                   exit_cause>>
    /\ UNCHANGED crawl_vars

\* scrape_single_page, lines 171-174, and main, lines 206-207: fetch_page
\* returned None or an empty body, scrape_single_page returns None.
SingleFailure(outcome) ==
    /\ pc = "single_fetch"
    /\ ~HtmlTruthy(outcome)
    /\ single_outcome' = outcome
    /\ single_result' = <<>>
    /\ pc' = "single_returned"
    /\ UNCHANGED <<config, argv, args, file_config, exit_code, saved, runs, single_log, page_links,
                   exit_cause>>
    /\ UNCHANGED crawl_vars

\* scrape_single_page, line 173: parser.parse raises; main's handler exits
\* with 1.
SingleParseRaises ==
    /\ pc = "single_fetch"
    /\ HtmlTruthy("Success")
    /\ single_outcome' = "Success"
    /\ pc' = "exited"
    /\ exit_code' = 1
    /\ exit_cause' = "error"
    /\ UNCHANGED <<config, argv, args, file_config, saved, runs, single_log, single_result, page_links>>
    /\ UNCHANGED crawl_vars

\* KeyboardInterrupt during the fetch_page call of scrape_single_page.
SingleInterrupt ==
    /\ pc = "single_fetch"
    /\ pc' = "exited"
    /\ exit_code' = 0
    /\ exit_cause' = "interrupt"
    /\ UNCHANGED <<config, argv, args, file_config, saved, runs, single_log, single_outcome,
                   single_result, page_links>>
    /\ UNCHANGED crawl_vars

\* main, lines 204-230: the single-page results go to storage when there are any.
MainFinishSingle ==
    /\ pc = "single_returned"
    /\ saved' = single_result
    /\ pc' = "exited"
    /\ exit_code' = 0
    /\ exit_cause' = IF single_result # <<>> THEN "saved" ELSE "nodata"
    /\ UNCHANGED <<config, argv, args, file_config, runs, single_log, single_outcome, single_result,
                   page_links>>
    /\ UNCHANGED crawl_vars

\* Mutant of MainMissingInput: the usage error exits with 0.
MainMissingInputExit0 ==
    /\ pc = "idle"
    /\ runs = 0
    /\ pc' = "exited"
    /\ exit_code' = 0
    /\ exit_cause' = "usage"
    /\ UNCHANGED <<config, argv, args, file_config, saved, runs, single_log, single_outcome,
                   single_result, page_links>>
    /\ UNCHANGED crawl_vars

\* main, lines 149-153: neither a URL nor a config file was given.
MainMissingInput ==
    /\ pc = "idle"
    /\ runs = 0
    /\ pc' = "exited"
    /\ exit_code' = 1
    /\ exit_cause' = "usage"
    /\ UNCHANGED <<config, argv, args, file_config, saved, runs, single_log, single_outcome,
                   single_result, page_links>>
    /\ UNCHANGED crawl_vars

Next ==
    \/ \E start_url \in StartUrls, arg \in MaxPagesArgs : CrawlStart(start_url, arg)
    \/ CrawlReturn
    \/ PopSkipVisited
    \/ PopSkipDomain
    \/ PopFetch
    \/ \E links \in LinkLists : FetchSuccess(links)
    \/ \E outcome \in FetchOutcomes : FetchFailure(outcome)
    \/ ParseRaises
    \/ SleepDone
    \/ Interrupt
    \/ MainFinish
    \/ \E url \in SingleUrls : SingleStart(url)
    \/ SingleSuccess
    \/ \E outcome \in FetchOutcomes : SingleFailure(outcome)
    \/ SingleParseRaises
    \/ SingleInterrupt
    \/ MainFinishSingle
    \/ MainMissingInput

Spec == Init /\ [][Next]_vars

\* The steps of a running crawl.  The loop is sequential code: the GET has a
\* timeout and the sleep is finite, so a running crawl always takes its next step.
CrawlStep ==
    \/ CrawlReturn
    \/ PopSkipVisited
    \/ PopSkipDomain
    \/ PopFetch
    \/ \E links \in LinkLists : FetchSuccess(links)
    \/ \E outcome \in FetchOutcomes : FetchFailure(outcome)
    \/ ParseRaises
    \/ SleepDone
    \/ Interrupt

FairSpec == Spec /\ WF_vars(CrawlStep)

\* The program under configurations with a negative, a zero and a positive
\* delay_between_requests.
DelayValues == {-2, 0, 2}

DelayConfigs ==
    [allowed_domains : AllowedDomainsChoices,
     follow_links : BOOLEAN,
     delay_between_requests : DelayValues,
     max_pages : {None}]

DelayInit ==
    /\ config \in DelayConfigs
    /\ visited_urls = {}
    /\ urls_to_visit = <<>>
    /\ results = <<>>
    /\ max_pages = 0
    /\ current_url = ""
    /\ new_links = <<>>
    /\ pc = "idle"
    /\ exit_code = None
    /\ saved = <<>>
    /\ ended = "none"
    /\ runs = 0
    /\ start_visited = {}
    /\ fetch_log = <<>>
    /\ enq_log = <<>>
    /\ skip_log = <<>>
    /\ seed_outcome = "none"
    /\ waits = 0
    /\ page_links = <<>>
    /\ single_log = <<>>
    /\ single_outcome = "none"
    /\ single_result = <<>>
    /\ exit_cause = "none"
    /\ argv = EmptyDict
    /\ args = EmptyDict
    /\ file_config = EmptyDict

DelaySpec == DelayInit /\ [][Next]_vars

\* Crawls of the four-page site in which every fetch returns the page and the
\* page parses: crawl(SiteSeed, arg), the links of a page in any order.
ScenarioCrawlStart == \E arg \in MaxPagesArgs : CrawlStart(SiteSeed, arg)

ScenarioFetchSuccess ==
    /\ pc = "fetch"
    /\ \E links \in SiteLinks[current_url] : FetchSuccess(links)

ScenarioNext ==
    \/ ScenarioCrawlStart
    \/ CrawlReturn
    \/ PopSkipVisited
    \/ PopSkipDomain
    \/ PopFetch
    \/ ScenarioFetchSuccess
    \/ SleepDone
    \/ MainFinish

ScenarioSpec == Init /\ [][ScenarioNext]_vars

\* ---- main: command line, configuration file, overrides ----

\* argparse's defaults of --max-pages and --delay.
CliMaxPagesDefault == 10
CliDelayDefault == 2

\* Config.DEFAULT_CONFIG, the keys the crawl reads.
DefaultConfig ==
    [target_url |-> "https://example.com",
     max_pages |-> 10,
     delay_between_requests |-> 2,
     follow_links |-> TRUE,
     allowed_domains |-> <<>>]

\* dict.update: the keys of updates replace or extend those of base.
DictUpdate(base, updates) == updates @@ base

\* A dict with the one key k when present, without keys otherwise.
Entry(k, v, present) == IF present THEN k :> v ELSE EmptyDict

\* The path given with --config; the file exists and holds a JSON object.
ConfigPath == "scraper_config.json"

\* Command lines: each flag given or not; --max-pages and --delay with a zero
\* and a non-zero value.
Argvs ==
    {Entry("url", UrlSeed, u) @@ Entry("config", ConfigPath, c)
        @@ Entry("max_pages", m, m # None) @@ Entry("delay", d, d # None)
        @@ Entry("crawl", TRUE, k) :
     u \in BOOLEAN, c \in BOOLEAN, m \in {None, 0, 3}, d \in {None, 0, 1},
     k \in BOOLEAN}

\* Configuration files: each key present or not.
FileConfigs ==
    {Entry("target_url", UrlOther, t) @@ Entry("max_pages", m, m # None)
        @@ Entry("delay_between_requests", d, d # None)
        @@ Entry("follow_links", FALSE, f) :
     t \in BOOLEAN, m \in {None, 2}, d \in {None, 0, 1}, f \in BOOLEAN}

\* Mutant of ParseArguments: --max-pages and --delay default to a falsy value.
ParseArgumentsNoDefaults(flags) ==
    [url |-> IF "url" \in DOMAIN flags THEN flags.url ELSE "",
     config |-> IF "config" \in DOMAIN flags THEN flags.config ELSE "",
     max_pages |-> IF "max_pages" \in DOMAIN flags THEN flags.max_pages ELSE 0,
     delay |-> IF "delay" \in DOMAIN flags THEN flags.delay ELSE 0,
     crawl |-> "crawl" \in DOMAIN flags]

\* parse_arguments: the Namespace of a command line.  A flag that is not given
\* takes its default; url and config default to None, written "" here (main
\* only tests them for truth, and both are falsy).
ParseArguments(flags) ==
    [url |-> IF "url" \in DOMAIN flags THEN flags.url ELSE "",
     config |-> IF "config" \in DOMAIN flags THEN flags.config ELSE "",
     max_pages |-> IF "max_pages" \in DOMAIN flags THEN flags.max_pages
                   ELSE CliMaxPagesDefault,
     delay |-> IF "delay" \in DOMAIN flags THEN flags.delay ELSE CliDelayDefault,
     crawl |-> "crawl" \in DOMAIN flags]

\* Config.__init__ and load_from_file: the defaults, updated with the file's
\* object when a path is given.
LoadConfig(config_file, file) ==
    IF config_file # "" THEN DictUpdate(DefaultConfig, file) ELSE DefaultConfig

\* Config.set under main's truth test: `if value: config.set(key, value)`.
SetIfTruthy(cfg, key, value, truthy) ==
    IF truthy THEN [cfg EXCEPT ![key] = value] ELSE cfg

\* main, lines 159-180: the overrides, in order.
ApplyOverrides(cfg, a) ==
    LET c1 == SetIfTruthy(cfg, "target_url", a.url, a.url # "")
        c2 == SetIfTruthy(c1, "max_pages", a.max_pages, a.max_pages # 0)
        c3 == SetIfTruthy(c2, "delay_between_requests", a.delay, a.delay # 0)
    IN  SetIfTruthy(c3, "follow_links", TRUE, a.crawl)

\* The process before main runs: the file on disk, nothing assigned yet.
MainInit ==
    /\ config = EmptyDict
    /\ visited_urls = {}
    /\ urls_to_visit = <<>>
    /\ results = <<>>
    /\ max_pages = 0
    /\ current_url = ""
    /\ new_links = <<>>
    /\ pc = "main"
    /\ exit_code = None
    /\ saved = <<>>
    /\ ended = "none"
    /\ runs = 0
    /\ start_visited = {}
    /\ fetch_log = <<>>
    /\ enq_log = <<>>
    /\ skip_log = <<>>
    /\ seed_outcome = "none"
    /\ waits = 0
    /\ page_links = <<>>
    /\ single_log = <<>>
    /\ single_outcome = "none"
    /\ single_result = <<>>
    /\ exit_cause = "none"
    /\ argv = EmptyDict
    /\ args = EmptyDict
    /\ file_config \in FileConfigs

main_rest == <<visited_urls, urls_to_visit, results, max_pages, current_url,
               new_links, exit_code, saved, ended, runs, start_visited,
               fetch_log, enq_log, skip_log, seed_outcome, waits, page_links,
               single_log, single_outcome, single_result, exit_cause>>

\* main, line 142: args = parse_arguments().
MainParseArgs(flags) ==
    /\ pc = "main"
    /\ argv' = flags
    /\ args' = ParseArguments(flags)
    /\ pc' = "parsed"
    /\ UNCHANGED <<config, file_config>>
    /\ UNCHANGED main_rest

\* main, lines 150-153: neither a URL nor a config file on the command line.
MainUsageExit ==
    /\ pc = "parsed"
    /\ args.url = "" /\ args.config = ""
    /\ pc' = "exited"
    /\ exit_code' = 1
    /\ exit_cause' = "usage"
    /\ UNCHANGED <<config, argv, args, file_config, visited_urls, urls_to_visit,
                   results, max_pages, current_url, new_links, saved, ended,
                   runs, start_visited, fetch_log, enq_log, skip_log,
                   seed_outcome, waits, page_links, single_log, single_outcome,
                   single_result>>

\* main, line 157: config = Config(args.config) if args.config else Config().
MainLoadConfig ==
    /\ pc = "parsed"
    /\ ~(args.url = "" /\ args.config = "")
    /\ config' = LoadConfig(args.config, file_config)
    /\ pc' = "loaded"
    /\ UNCHANGED <<argv, args, file_config>>
    /\ UNCHANGED main_rest

\* main, lines 159-196: the overrides, then the scraper is built.
MainOverride ==
    /\ pc = "loaded"
    /\ config' = ApplyOverrides(config, args)
    /\ pc' = "idle"
    /\ UNCHANGED <<argv, args, file_config>>
    /\ UNCHANGED main_rest

\* main, lines 199-203: the crawl path.
MainCallCrawl ==
    /\ pc = "idle"
    /\ config.follow_links
    /\ CrawlStart(config.target_url, config.max_pages)

\* main, lines 199 and 204-206: the single-page path.
MainCallSingle ==
    /\ pc = "idle"
    /\ ~config.follow_links
    /\ SingleStart(config.target_url)

MainNext ==
    \/ \E flags \in Argvs : MainParseArgs(flags)
    \/ MainUsageExit
    \/ MainLoadConfig
    \/ MainOverride
    \/ MainCallCrawl
    \/ MainCallSingle

\* main from its first line up to the call of crawl or scrape_single_page.
MainSpec == MainInit /\ [][MainNext]_vars

\* ------------------------------------------------------------- properties
Fetched == Range(fetch_log)

\* Index of u in the duplicate-free sequence log; 0 when absent.
Pos(log, u) ==
    IF u \in Range(log) THEN CHOOSE i \in 1..Len(log) : log[i] = u ELSE 0

\* C1: in a run that starts with an empty VisitedSet and has page budget N >= 1,
\* VisitedSet never holds more than N URLs (so neither when crawl returns) and
\* no more than N fetch attempts are started.
C1_PageBudget ==
    (runs >= 1 /\ start_visited = {} /\ max_pages >= 1)
        => /\ Cardinality(visited_urls) <= max_pages
           /\ Len(fetch_log) <= max_pages

\* A run from an empty VisitedSet that the budget stopped with URLs still queued.
C1_Witness ==
    /\ pc = "returned"
    /\ start_visited = {}
    /\ max_pages = 2
    /\ Cardinality(visited_urls) = 2
    /\ Len(fetch_log) = 2
    /\ urls_to_visit # <<>>

\* C2: within one crawl run fetch_page is called at most once per URL.
C2_NoRefetch ==
    \A i, j \in 1..Len(fetch_log) : fetch_log[i] = fetch_log[j] => i = j

\* The last fetched page links to itself and back to an earlier fetched page.
C2_Witness ==
    /\ Len(fetch_log) >= 2
    /\ pc \in {"loop", "sleep"}
    /\ current_url \in Range(new_links)
    /\ fetch_log[1] \in Range(new_links)
    /\ fetch_log[1] # current_url

Hostname(url) ==
    LET netloc == Netloc(url)
        ats == {i \in 1..Len(netloc) : CharAt(netloc, i) = "@"}
        hostport == IF ats = {} THEN netloc
                    ELSE SubSeq(netloc, (CHOOSE m \in ats : \A n \in ats : n <= m) + 1,
                                Len(netloc))
        colon == Find(hostport, ":", 1)
    IN  IF colon = 0 THEN hostport ELSE SubSeq(hostport, 1, colon - 1)

\* What C4 says the filter returns.
HostFilter(url, allowed_domains) ==
    \/ allowed_domains = <<>>
    \/ \E k \in 1..Len(allowed_domains) : Contains(Hostname(url), allowed_domains[k])

\* C4: the domain filter lets a popped URL through to the fetch exactly when
\* allowed_domains is empty or the URL's host contains one of its entries.
\* (A popped URL that is unvisited while the loop goes on is one the filter rejected.)
C4_HostSubstring ==
    /\ pc = "fetch" => HostFilter(current_url, config.allowed_domains)
    /\ (pc = "loop" /\ current_url # "" /\ current_url \notin visited_urls)
           => ~HostFilter(current_url, config.allowed_domains)

\* C5: a running crawl always ends; it returns only with the Frontier empty or
\* the budget reached, returns as soon as that is so, and starts no fetch once
\* |VisitedSet| >= page budget.
C5_Terminates ==
    /\ [](pc \in {"loop", "fetch", "sleep"} => <>(pc \in {"returned", "exited"}))
    /\ [](pc = "returned"
             => (urls_to_visit = <<>> \/ Cardinality(visited_urls) >= max_pages))
    /\ [][(pc = "loop"
            /\ (urls_to_visit = <<>> \/ Cardinality(visited_urls) >= max_pages))
              => pc' = "returned"]_vars
    /\ [][(pc # "fetch" /\ pc' = "fetch")
              => Cardinality(visited_urls) < max_pages]_vars

\* A crawl over a cyclic link graph that ran out of URLs below its budget.
C5_Witness ==
    /\ pc = "returned"
    /\ urls_to_visit = <<>>
    /\ Cardinality(visited_urls) < max_pages
    /\ Len(fetch_log) >= 3
    /\ fetch_log[1] \in Range(new_links)

\* C6: with no domain filtering, URLs are fetched in the order in which they
\* were first enqueued.
C6_Fifo ==
    config.allowed_domains = <<>>
        => \A i, j \in 1..Len(fetch_log) :
               i < j => Pos(enq_log, fetch_log[i]) < Pos(enq_log, fetch_log[j])

\* Four pages fetched, so the links of at least two pages were queued.
C6_Witness ==
    /\ config.allowed_domains = <<>>
    /\ pc = "returned"
    /\ Len(fetch_log) = 4
    /\ enq_log = fetch_log

\* C7: in a run started with an empty VisitedSet, VisitedSet is the set of URLs
\* whose fetch has been attempted, whatever the outcomes; a fetch that is still
\* in flight, or that an interrupt cut off, is not yet marked.
C7_VisitedIsAttempted ==
    (start_visited = {} /\ pc # "fetch" /\ ended # "interrupt")
        => visited_urls = Fetched

\* The second fetch failed, its URL is visited, and the crawl fetched on.
C7_Witness ==
    /\ start_visited = {}
    /\ pc = "returned"
    /\ Len(fetch_log) >= 3
    /\ fetch_log[2] \notin Range(results)
    /\ fetch_log[2] \in visited_urls
    /\ fetch_log[3] \in Range(results)

\* C8: nothing that fails in the per-URL fetch or parse step ends the crawl;
\* it ends only by an interrupt, the budget or an empty Frontier.
C8_NoFatalStepFailure ==
    ended \in {"none", "exhausted", "interrupt"}

\* C9: after an interrupt during the crawl loop the records accumulated so far
\* have been handed to storage and the process exits with 0.
C9_InterruptKeepsRecords ==
    ended = "interrupt" => (saved = results /\ exit_code = 0)

\* C10: every crawl invocation starts with an empty VisitedSet and a queue
\* holding only its start URL.
C10_FreshPerRun ==
    /\ runs >= 1 => start_visited = {}
    /\ (pc = "loop" /\ fetch_log = <<>> /\ current_url = "")
           => (Len(urls_to_visit) = 1 /\ visited_urls = {})

\* C11: crawling the four-page site from its seed with budget 3, every fetch
\* succeeding and follow_links on, /c is never fetched and, whichever order the
\* seed's two links were enqueued in, VisitedSet at completion is exactly
\* {seed, /a, /b}.
C11_ScenarioVisited ==
    LET scenario == /\ runs >= 1
                    /\ start_visited = {}
                    /\ max_pages = 3
                    /\ config.follow_links
                    /\ config.allowed_domains = <<>>
    IN  /\ scenario => SiteC \notin Fetched
        /\ (scenario /\ pc = "returned")
               => visited_urls = {SiteSeed, SiteA, SiteB}

\* /b was enqueued before /a, so /c was queued only after both; the budget
\* stopped the crawl with /c still queued.
C11_Witness ==
    /\ pc = "returned"
    /\ start_visited = {}
    /\ max_pages = 3
    /\ config.follow_links
    /\ fetch_log = <<SiteSeed, SiteB, SiteA>>
    /\ urls_to_visit = <<SiteC>>

\* The first fetch of a crawl run on a fresh scraper, the fetch of its seed,
\* has returned a 404 and nothing has been fetched since.
SeedNotFound ==
    /\ runs >= 1
    /\ start_visited = {}
    /\ Len(fetch_log) = 1
    /\ fetch_log[1] = enq_log[1]
    /\ seed_outcome = "NotFound"

\* C12: when the fetch of the seed URL returns a 404, crawl does not raise: the
\* iteration comes back to the loop head with the loop condition false, so
\* crawl's next step is its return; its result list is empty and VisitedSet is
\* exactly {seed}.
C12_SeedNotFound ==
    SeedNotFound
        => /\ results = <<>>
           /\ visited_urls = {fetch_log[1]}
           /\ ended \in {"none", "exhausted"}
           /\ pc = "loop" => ~LoopCond(urls_to_visit, visited_urls, max_pages)
           /\ pc \in {"loop", "returned", "exited"}
           /\ pc = "exited" => (ended = "exhausted" /\ exit_code = 0)

\* The crawl returned after the 404 on its seed.
C12_Witness ==
    /\ SeedNotFound
    /\ pc = "returned"
    /\ fetch_log = <<UrlSeed>>
    /\ visited_urls = {UrlSeed}
    /\ results = <<>>

\* C13: with follow_links false a run attempts at most one fetch and produces
\* at most one record, however many links the fetched page has, both when
\* crawl is called and on the single-page path main takes.
C13_NoFollowOnePage ==
    ~config.follow_links
        => /\ Len(fetch_log) <= 1
           /\ Len(results) <= 1
           /\ Len(single_log) <= 1
           /\ Len(single_result) <= 1

\* crawl fetched a page with two links, recorded it and returned with an empty
\* queue.
C13_Witness ==
    /\ ~config.follow_links
    /\ pc = "returned"
    /\ Len(fetch_log) = 1
    /\ Len(results) = 1
    /\ Len(page_links) = 2
    /\ urls_to_visit = <<>>

\* C14: scrape_single_page fetches exactly one URL, gives main no record when
\* the fetch failed and one record when it succeeded (a 200 response, whatever
\* its body), and leaves VisitedSet and the queue as they were: on a scraper
\* that has not crawled, empty.
C14_SinglePage ==
    /\ pc \in {"single_fetch", "single_returned"} => Len(single_log) = 1
    /\ pc = "single_returned"
           => Len(single_result) =
                  IF single_outcome \in {"Success", "SuccessEmptyBody"} THEN 1 ELSE 0
    /\ (pc \in {"single_fetch", "single_returned"} /\ enq_log = <<>>)
           => (visited_urls = {} /\ urls_to_visit = <<>>)

\* The delay crawl reads at line 119.
Delay == ConfigGet(config.delay_between_requests, 1)

\* C15: with a delay > 0, when a fetch attempt that is not the first of its
\* crawl run starts, at least one wait of the delay has taken place since the
\* previous fetch attempt returned.
C15_WaitBetweenFetches ==
    (pc = "fetch" /\ Len(fetch_log) >= 2 /\ Delay > 0) => waits >= 1

\* The third fetch of a run starts, one wait after the second; a rejected URL
\* was skipped on the way.
C15_Witness ==
    /\ pc = "fetch"
    /\ Delay > 0
    /\ Len(fetch_log) = 3
    /\ waits = 1
    /\ skip_log # <<>>

\* C16: crawl does not wait between the last fetch attempt of a run and its
\* return.
C16_NoWaitAfterLastFetch ==
    pc = "returned" => waits = 0

C18_ExitCodes ==
    /\ pc # "exited" => (exit_code = None /\ exit_cause = "none")
    /\ pc = "exited"
           => /\ exit_cause \in {"usage", "error", "interrupt", "saved", "nodata"}
              /\ exit_cause \in {"usage", "error"} => exit_code = 1
              /\ exit_cause \in {"interrupt", "saved", "nodata"} => exit_code = 0
              /\ exit_cause = "usage" => runs = 0
              /\ exit_cause = "saved" => saved # <<>>
              /\ exit_cause = "nodata" => saved = <<>>

\* The one fetch of the crawl timed out, main reported no data and ended
\* with 0.
C18_Witness ==
    /\ pc = "exited"
    /\ exit_cause = "nodata"
    /\ exit_code = 0
    /\ Len(fetch_log) = 1
    /\ seed_outcome = "Timeout"
    /\ saved = <<>>

\* C19: no URL the domain filter rejects is ever in VisitedSet, in the results
\* or among the fetched URLs, and the iteration that pops a rejected URL
\* leaves VisitedSet, the results and the fetch attempts as they were (so a
\* later link to the same URL enqueues it again, see the witness).
C19_RejectedNeverVisited ==
    /\ [](\A u \in visited_urls \cup Range(results) \cup Fetched : Allowed(u, config))
    /\ [][(/\ pc = "loop"
           /\ LoopCond(urls_to_visit, visited_urls, max_pages)
           /\ Head(urls_to_visit) \notin visited_urls
           /\ ~Allowed(Head(urls_to_visit), config)
           /\ urls_to_visit' # urls_to_visit)
              => /\ urls_to_visit' = Tail(urls_to_visit)
                 /\ UNCHANGED <<visited_urls, results, fetch_log>>
                 /\ pc' = "loop"]_vars

\* other.test was rejected, a later page linked to it again, it was enqueued
\* again and rejected again.
C19_Witness ==
    /\ pc = "returned"
    /\ skip_log = <<UrlOther, UrlOther>>
    /\ Len(fetch_log) >= 2
    /\ UrlOther \notin visited_urls

\* C20: in a crawl run started with an empty VisitedSet the queue never holds
\* a URL twice nor a URL of VisitedSet; and the links of a fetched page are
\* appended at the tail, in order, exactly those that are neither in
\* VisitedSet nor already queued, the queue being otherwise unchanged.
C20_QueueDiscipline ==
    /\ [](start_visited = {}
             => /\ \A i, j \in 1..Len(urls_to_visit) :
                       urls_to_visit[i] = urls_to_visit[j] => i = j
                /\ Range(urls_to_visit) \cap visited_urls = {})
    /\ [][(pc = "fetch" /\ pc' \in {"loop", "sleep"}
            /\ Len(results') = Len(results) + 1 /\ config.follow_links)
              => LET old == urls_to_visit
                     seen == visited_urls'
                     fresh(l) == l \notin seen /\ l \notin Range(old)
                 IN  urls_to_visit' = old \o SelectSeq(new_links', fresh)]_vars

\* Of the two links of the second page fetched, the first is visited and was
\* dropped, the second was appended behind a URL that was waiting.
C20_Witness ==
    /\ start_visited = {}
    /\ pc = "sleep"
    /\ Len(fetch_log) = 2
    /\ Len(new_links) = 2
    /\ new_links[1] \in visited_urls
    /\ Len(urls_to_visit) = 2
    /\ urls_to_visit[2] = new_links[2]

\* C21: when the first fetch of a run got a 200 response, whatever its body,
\* the iteration leaves exactly one record, that of the fetched URL, and with
\* follow_links on every link of the page was handed to _add_links_to_queue:
\* it is visited or queued.
C21_SuccessYieldsRecord ==
    (/\ seed_outcome \in {"Success", "SuccessEmptyBody"}
     /\ Len(fetch_log) = 1
     /\ pc \in {"loop", "sleep"}
     /\ current_url = fetch_log[1])
        => /\ results = <<fetch_log[1]>>
           /\ config.follow_links
                  => \A l \in Range(page_links) :
                         l \in visited_urls \/ l \in Range(urls_to_visit)

\* The failures of fetch_page: every outcome but a 200 response.
FailedOutcomes == FetchOutcomes \ {"Success", "SuccessEmptyBody"}

\* C22: an iteration whose fetch fails appends no record and enqueues nothing:
\* results and the queue stay as they were right after the pop and VisitedSet
\* gains the URL, nothing else; after a failed first fetch the results and the
\* queue are empty.
C22_FailureFrame ==
    /\ []((/\ seed_outcome \in FailedOutcomes
           /\ pc \in {"loop", "sleep"}
           /\ current_url = fetch_log[1])
              => /\ results = <<>>
                 /\ urls_to_visit = <<>>
                 /\ visited_urls = start_visited \cup {current_url})
    /\ [][(\E outcome \in FailedOutcomes : FetchFailure(outcome))
              => /\ results' = results
                 /\ urls_to_visit' = urls_to_visit
                 /\ visited_urls' = visited_urls \cup {current_url}
                 /\ pc' \in {"loop", "sleep"}]_vars

\* The second fetch of the run failed while a URL was waiting: its URL is
\* visited, has no record, and the crawl goes on.
C22_Witness ==
    /\ pc = "sleep"
    /\ Len(fetch_log) = 2
    /\ current_url = fetch_log[2]
    /\ current_url \in visited_urls
    /\ current_url \notin Range(results)
    /\ page_links = <<>>
    /\ urls_to_visit # <<>>

\* C23: the record URLs of a crawl are a duplicate-free subsequence of the
\* order in which the URLs were fetched, every record URL is in VisitedSet and
\* there are never more records than visited URLs.
C23_ResultsInFetchOrder ==
    /\ \A i, j \in 1..Len(results) : results[i] = results[j] => i = j
    /\ Range(results) \subseteq Fetched
    /\ \A i, j \in 1..Len(results) :
           i < j => Pos(fetch_log, results[i]) < Pos(fetch_log, results[j])
    /\ Range(results) \subseteq visited_urls
    /\ Len(results) <= Cardinality(visited_urls)

\* Three pages were fetched, the second gave no record: the returned list
\* holds the first and the third, in that order.
C23_Witness ==
    /\ pc = "returned"
    /\ Len(fetch_log) = 3
    /\ results = <<fetch_log[1], fetch_log[3]>>

\* C24: crawl starts a rate-limit wait exactly at the end of an iteration that
\* attempted a fetch, with a delay > 0 and a non-empty queue at that moment;
\* with a zero or negative delay it never waits; an iteration that skips a
\* visited or rejected URL goes back to the loop head without a wait.
C24_WaitIff ==
    /\ [](Delay <= 0 => (pc # "sleep" /\ waits = 0))
    /\ [][(pc # "sleep" /\ pc' = "sleep")
              => (pc = "fetch" /\ Delay > 0 /\ urls_to_visit' # <<>>)]_vars
    /\ [][(pc = "fetch" /\ pc' \in {"loop", "sleep"}
            /\ Delay > 0 /\ urls_to_visit' # <<>>)
              => pc' = "sleep"]_vars
    /\ [][(pc = "loop" /\ pc' \notin {"fetch", "returned"})
              => (pc' = "loop" /\ waits' = waits
                  /\ urls_to_visit' = Tail(urls_to_visit))]_vars

\* With a delay of -2 the first fetch came back with a URL queued and the
\* crawl is at the loop head again without having waited.
C24_Witness ==
    /\ Delay < 0
    /\ pc = "loop"
    /\ Len(fetch_log) = 1
    /\ current_url = fetch_log[1]
    /\ urls_to_visit # <<>>
    /\ waits = 0

\* C25: when the domain filter rejects the start URL of a crawl on a scraper
\* with an empty VisitedSet, the run fetches nothing, records nothing, leaves
\* VisitedSet empty, does not raise, and after the start URL is popped the loop
\* condition is false: crawl returns with an empty queue.
C25_RejectedStart ==
    (/\ enq_log # <<>>
     /\ start_visited = {}
     /\ ~Allowed(enq_log[1], config))
        => /\ fetch_log = <<>>
           /\ results = <<>>
           /\ visited_urls = {}
           /\ ended \in {"none", "exhausted"}
           /\ pc \in {"loop", "returned", "exited"}
           /\ pc = "loop" => \/ urls_to_visit = <<enq_log[1]>> /\ skip_log = <<>>
                             \/ /\ urls_to_visit = <<>>
                                /\ skip_log = <<enq_log[1]>>
                                /\ ~LoopCond(urls_to_visit, visited_urls, max_pages)
           /\ pc \in {"returned", "exited"}
                  => (urls_to_visit = <<>> /\ skip_log = <<enq_log[1]>>)
           /\ pc = "exited" => (exit_code = 0 /\ saved = <<>>)

\* crawl was started at other.test with allowed_domains = ["example.com"] and
\* returned after skipping it.
C25_Witness ==
    /\ pc = "returned"
    /\ start_visited = {}
    /\ config.allowed_domains = <<"example.com">>
    /\ enq_log = <<UrlOther>>
    /\ skip_log = <<UrlOther>>
    /\ fetch_log = <<>>
    /\ results = <<>>


\* C26: when main runs with a config file and without the --max-pages and
\* --delay flags, the budget and the delay the crawl uses are the command
\* line's defaults, 10 pages and 2 seconds, whatever the file says; a key of
\* the file takes effect exactly when the command line does not override it.
C26_CliDefaultsOverrideFile ==
    (pc \in {"loop", "single_fetch"} /\ args.config # "")
        => /\ "max_pages" \notin DOMAIN argv
                  => /\ config.max_pages = 10
                     /\ pc = "loop" => max_pages = 10
           /\ "delay" \notin DOMAIN argv => Delay = 2
           /\ \A k \in DOMAIN file_config :
                  LET overridden ==
                          CASE k = "target_url" -> args.url # ""
                            [] k = "max_pages" -> args.max_pages # 0
                            [] k = "delay_between_requests" -> args.delay # 0
                            [] k = "follow_links" -> args.crawl
                      cli ==
                          CASE k = "target_url" -> args.url
                            [] k = "max_pages" -> args.max_pages
                            [] k = "delay_between_requests" -> args.delay
                            [] k = "follow_links" -> TRUE
                  IN  config[k] = IF overridden THEN cli ELSE file_config[k]
           /\ pc = "loop" => enq_log = <<config.target_url>>
           /\ pc = "single_fetch" => single_log = <<config.target_url>>

C26_Witness ==
    /\ pc = "loop"
    /\ DOMAIN argv = {"config"}
    /\ DOMAIN file_config = {"target_url", "max_pages", "delay_between_requests"}
    /\ file_config.max_pages = 2
    /\ file_config.delay_between_requests = 1
    /\ max_pages = 10
    /\ Delay = 2
    /\ enq_log = <<UrlOther>>
====
